---- MODULE Spec2Model ----
(***************************************************************************)
(* Print-production suite: price quoter (tier resolution), JPEG density    *)
(* tag injection, PDF page analysis and PDF-to-image conversion.           *)
(*                                                                         *)
(* Money is counted in tenths of a currency unit (basePrice 0.5 -> 5,      *)
(* basePrice 50 -> 500), so that every price of the source is an integer.  *)
(* Byte sequences are 1-indexed TLA+ sequences; At(b, off) reads the byte  *)
(* at the 0-based offset off, as DataView does.                            *)
(***************************************************************************)
EXTENDS Integers, Sequences, FiniteSets, TLC

VARIABLES
    \* ---- PriceQuoter.tsx (component state) ----
    bindingOptions,        \* PriceOption[] compared against quantity
    paperOptions,          \* PriceOption[] compared against manualPages
    selectedBindingId,
    selectedInnerPaperId,
    quantity,
    manualPages,
    manualColor,
    manualBw,
    addons,                \* Addon[]: id, pricePerUnit, selected
    currentBindingPrice,   \* useMemo value
    currentPaperPrice,     \* useMemo value
    nEdits,                \* number of settings edits made so far
    \* ---- PdfToImageConverter.tsx: injectDpiToJpeg ----
    jpgIn,                 \* bytes of the blob handed to the last call
    jpgDpi,                \* dpi handed to the last call
    jpgOut,                \* [settled, bytes]: the returned promise
    jpgCalls,              \* number of calls made
    \* ---- PdfAnalyzer.tsx: the colour scan of analyzePdf ----
    clsDef,                \* which of the file's two definitions of analyzePdf
    clsData,               \* imageData.data: RGBA bytes in raster order
    clsIsColor,            \* isColor after the scan
    clsDone,               \* the scan has run
    \* ---- PdfAnalyzer.tsx (component state) ----
    anaDef,                \* which of the file's two definitions is mounted
    aFile,                 \* file
    aIsProcessing,         \* isProcessing
    aProgress,             \* progress
    aResults,              \* results
    aRun,                  \* the analyzePdf call: position and locals
    \* ---- App.tsx ----
    activeModule,          \* the component that is mounted
    sharedData,            \* handoff tuple given to the quoter
    \* ---- PdfToImageConverter.tsx (component state) ----
    cFile,                 \* file
    originalPdfInfo,
    cIsProcessing,         \* isProcessing
    cProgress,             \* progress
    cPages,                \* pages
    dpi,
    targetWidthMm,         \* [set, mm]: '' or a number
    cRuns,                 \* the processPdf calls made: position and locals
    cInfoReads,            \* files whose handleFileChange is past setPages([])
    cSettingChanges,       \* number of settings changes made so far
    cFileChanges,          \* number of files chosen so far
    \* ---- FlipbookViewer.tsx (component state) ----
    fFile,                 \* file
    fPages,                \* pages: the page images, named by page number
    currentPage,
    isLoading,
    flipDirection,         \* "next", "prev" or "none" (null)
    fLoads,                \* the loadPdf calls made: position and locals
    fTimer,                \* the pending 500 ms timer and what it closed over
    fFileChanges           \* number of files chosen so far

quoterVars == <<bindingOptions, paperOptions, selectedBindingId,
                selectedInnerPaperId, quantity, manualPages,
                manualColor, manualBw, addons,
                currentBindingPrice, currentPaperPrice, nEdits>>
injectVars == <<jpgIn, jpgDpi, jpgOut, jpgCalls>>
classVars == <<clsDef, clsData, clsIsColor, clsDone>>
anaVars == <<anaDef, aFile, aIsProcessing, aProgress, aResults, aRun>>
appVars == <<activeModule, sharedData>>
convVars == <<cFile, originalPdfInfo, cIsProcessing, cProgress, cPages, dpi,
              targetWidthMm, cRuns, cInfoReads, cSettingChanges, cFileChanges>>
flipVars == <<fFile, fPages, currentPage, isLoading, flipDirection, fLoads,
              fTimer, fFileChanges>>
vars == <<quoterVars, injectVars, classVars, anaVars, appVars, convVars, flipVars>>

(***************************************************************************)
(* Generic helpers                                                         *)
(***************************************************************************)
Abs(x) == IF x < 0 THEN -x ELSE x

\* Math.round(n / d) for d > 0: halves rounded up
RoundDiv(n, d) == (2 * n + d) \div (2 * d)

RemoveAt(s, idx) == [i \in 1..(Len(s) - 1) |-> IF i < idx THEN s[i] ELSE s[i + 1]]

(***************************************************************************)
(* PriceQuoter.tsx                                                         *)
(***************************************************************************)
MaxTiers == 3
MaxEdits == 2

EditMinAmounts == {0, 50, 100}
EditPrices == {0, 300}
EditBasePrices == {300}
Quantities == {-5, 1, 50, 100}
PageCounts == {-1, 0, 51, 101}

defaultBindingOptions ==
    << [id |-> "b1", basePrice |-> 500, tierType |-> "quantity",
        tiers |-> << [minAmount |-> 50, price |-> 450],
                     [minAmount |-> 100, price |-> 350] >>],
       [id |-> "b2", basePrice |-> 400, tierType |-> "quantity", tiers |-> <<>>] >>

defaultPaperOptions ==
    << [id |-> "p1", basePrice |-> 5, tierType |-> "pages",
        tiers |-> << [minAmount |-> 51, price |-> 4],
                     [minAmount |-> 101, price |-> 3] >>],
       [id |-> "p2", basePrice |-> 8, tierType |-> "pages", tiers |-> <<>>] >>

\* Array.prototype.find(o => o.id === id): the index of the first option with
\* the id, 0 when find returns undefined
FindOption(options, id) ==
    IF \E i \in 1..Len(options) : options[i].id = id
    THEN CHOOSE i \in 1..Len(options) :
            /\ options[i].id = id
            /\ \A j \in 1..(i - 1) : options[j].id # id
    ELSE 0

\* Array.prototype.filter(t => amount >= t.minAmount): a new array, in order
FilterTiers(tiers, amount) ==
    SelectSeq(tiers, LAMBDA t : amount >= t.minAmount)

RECURSIVE InsertDescTiesLast(_, _)
\* a plausible slip: a sort that is not stable, putting t before its equals
InsertDescTiesLast(t, sorted) ==
    IF sorted = <<>> THEN <<t>>
    ELSE IF Head(sorted).minAmount > t.minAmount
         THEN <<Head(sorted)>> \o InsertDescTiesLast(t, Tail(sorted))
         ELSE <<t>> \o sorted

RECURSIVE InsertDesc(_, _)
\* insert t behind every element whose minAmount is >= t.minAmount
InsertDesc(t, sorted) ==
    IF sorted = <<>> THEN <<t>>
    ELSE IF Head(sorted).minAmount >= t.minAmount
         THEN <<Head(sorted)>> \o InsertDesc(t, Tail(sorted))
         ELSE <<t>> \o sorted

RECURSIVE SortDesc(_)
\* Array.prototype.sort((a, b) => b.minAmount - a.minAmount): stable, descending
SortDesc(tiers) ==
    IF tiers = <<>> THEN <<>>
    ELSE InsertDesc(tiers[Len(tiers)], SortDesc(SubSeq(tiers, 1, Len(tiers) - 1)))

\* a plausible slip: strict comparison in the filter
ResolveTierStrict(opt, amount) ==
    LET sorted == SortDesc(SelectSeq(opt.tiers, LAMBDA t : amount > t.minAmount))
    IN  IF sorted # <<>> THEN sorted[1].price ELSE opt.basePrice

\* opt.tiers.filter(...).sort(...)[0]; tier ? tier.price : opt.basePrice
ResolveTier(opt, amount) ==
    LET sorted == SortDesc(FilterTiers(opt.tiers, amount))
    IN  IF sorted # <<>> THEN sorted[1].price ELSE opt.basePrice

\* useMemo currentBindingPrice / currentPaperPrice
ResolvePrice(options, selectedId, amount) ==
    LET opt == FindOption(options, selectedId)
    IN  IF opt = 0 THEN 0 ELSE ResolveTier(options[opt], amount)

\* updateOption(type, id, field, value): map over the options
UpdateOption(options, id, field, value) ==
    [i \in 1..Len(options) |->
        IF options[i].id = id THEN [options[i] EXCEPT ![field] = value]
        ELSE options[i]]

\* a plausible slip: sort called on the stored list itself, which it reorders
TiersAfterResolveInPlace(opt, amount) == SortDesc(opt.tiers)

\* opt.tiers after opt.tiers.filter(...).sort(...): filter returns a new array
\* and sort reorders that array, its receiver; opt.tiers is not written to
TiersAfterResolve(opt, amount) == opt.tiers

\* the stored option set after the memo for (id, amount) was computed from it
OptionsAfterResolve(options, id, amount) ==
    LET opt == FindOption(options, id)
    IN  [i \in 1..Len(options) |->
            IF i = opt
            THEN [options[i] EXCEPT !.tiers = TiersAfterResolve(options[i], amount)]
            ELSE options[i]]

defaultAddons ==
    << [id |-> "a1", pricePerUnit |-> 150, selected |-> FALSE],
       [id |-> "a2", pricePerUnit |-> 100, selected |-> FALSE],
       [id |-> "a3", pricePerUnit |-> 100, selected |-> FALSE],
       [id |-> "a4", pricePerUnit |-> 300, selected |-> FALSE] >>

RECURSIVE SumPrices(_)
\* reduce((sum, a) => sum + a.pricePerUnit, 0)
SumPrices(as) ==
    IF as = <<>> THEN 0 ELSE Head(as).pricePerUnit + SumPrices(Tail(as))

\* useMemo addonTotal, in tenths
addonTotal == SumPrices(SelectSeq(addons, LAMBDA a : a.selected))

\* perBookPrice of useMemo totalPrice, in tenths (rates 5 and 1 are 50 and 10)
perBookPrice ==
    (manualColor * 50) + (manualBw * 10) + (manualPages * currentPaperPrice)
        + currentBindingPrice + addonTotal

\* useMemo totalPrice: Math.round(perBookPrice * quantity), in whole units; the
\* product is taken exactly here, the source takes it in double precision
totalPrice ==
    IF manualPages = 0 THEN 0 ELSE RoundDiv(perBookPrice * quantity, 10)

InitQuoter ==
    /\ bindingOptions = defaultBindingOptions
    /\ paperOptions = defaultPaperOptions
    /\ selectedBindingId = "b1"
    /\ selectedInnerPaperId = "p1"
    /\ quantity = 1
    /\ manualPages = 0
    /\ manualColor = 0
    /\ manualBw = 0
    /\ addons = defaultAddons
    /\ currentBindingPrice =
           ResolvePrice(defaultBindingOptions, "b1", 1)
    /\ currentPaperPrice =
           ResolvePrice(defaultPaperOptions, "p1", 0)
    /\ nEdits = 0

\* the re-render that follows every state update, nb and np being the option
\* sets the update stored: both memos are recomputed, and the stored sets are
\* what the two resolutions leave of them
Render(nb, np) ==
    /\ bindingOptions' = OptionsAfterResolve(nb, selectedBindingId', quantity')
    /\ paperOptions' = OptionsAfterResolve(np, selectedInnerPaperId', manualPages')
    /\ currentBindingPrice' = ResolvePrice(nb, selectedBindingId', quantity')
    /\ currentPaperPrice' = ResolvePrice(np, selectedInnerPaperId', manualPages')

\* the quoter's handlers leave the other components alone
QuoterFrame == UNCHANGED <<injectVars, classVars, anaVars, appVars, convVars, flipVars>>

\* onChange of the quantity input: setQuantity(Math.max(1, Number(value)))
SetQuantity ==
    \E v \in Quantities :
        /\ quantity' = IF v > 1 THEN v ELSE 1
        /\ UNCHANGED <<selectedBindingId,
                       selectedInnerPaperId, manualPages, nEdits>>
        /\ UNCHANGED <<manualColor, manualBw, addons>>
        /\ Render(bindingOptions, paperOptions)
        /\ QuoterFrame

\* onChange of the page-count input: setManualPages(Number(value))
SetManualPages ==
    \E v \in PageCounts :
        /\ manualPages' = v
        /\ UNCHANGED <<selectedBindingId,
                       selectedInnerPaperId, quantity, nEdits>>
        /\ UNCHANGED <<manualColor, manualBw, addons>>
        /\ Render(bindingOptions, paperOptions)
        /\ QuoterFrame

SetSelectedBindingId ==
    \E i \in 1..Len(bindingOptions) :
        /\ selectedBindingId' = bindingOptions[i].id
        /\ UNCHANGED <<selectedInnerPaperId,
                       quantity, manualPages, nEdits>>
        /\ UNCHANGED <<manualColor, manualBw, addons>>
        /\ Render(bindingOptions, paperOptions)
        /\ QuoterFrame

SetSelectedInnerPaperId ==
    \E i \in 1..Len(paperOptions) :
        /\ selectedInnerPaperId' = paperOptions[i].id
        /\ UNCHANGED <<selectedBindingId,
                       quantity, manualPages, nEdits>>
        /\ UNCHANGED <<manualColor, manualBw, addons>>
        /\ Render(bindingOptions, paperOptions)
        /\ QuoterFrame

\* the tier lists an edit of option opt can produce
\* (add: newMin is 50 for binding and 100 for paper)
TierEdits(opt, newMin) ==
    {Append(opt.tiers, [minAmount |-> newMin, price |-> opt.basePrice]) :
        x \in {y \in {1} : Len(opt.tiers) < MaxTiers}}
    \cup {RemoveAt(opt.tiers, idx) : idx \in 1..Len(opt.tiers)}
    \cup {[opt.tiers EXCEPT ![idx].minAmount = m] :
            idx \in 1..Len(opt.tiers), m \in EditMinAmounts}
    \cup {[opt.tiers EXCEPT ![idx].price = p] :
            idx \in 1..Len(opt.tiers), p \in EditPrices}

BindingAddMinAmount == 50
PaperAddMinAmount == 100

EditBindingTiers ==
    /\ nEdits < MaxEdits
    /\ nEdits' = nEdits + 1
    /\ UNCHANGED <<selectedBindingId, selectedInnerPaperId, quantity, manualPages>>
    /\ UNCHANGED <<manualColor, manualBw, addons>>
    /\ \E i \in 1..Len(bindingOptions) :
         \E nt \in TierEdits(bindingOptions[i], BindingAddMinAmount) :
            Render(UpdateOption(bindingOptions, bindingOptions[i].id, "tiers", nt),
                   paperOptions)
    /\ QuoterFrame

EditPaperTiers ==
    /\ nEdits < MaxEdits
    /\ nEdits' = nEdits + 1
    /\ UNCHANGED <<selectedBindingId, selectedInnerPaperId, quantity, manualPages>>
    /\ UNCHANGED <<manualColor, manualBw, addons>>
    /\ \E i \in 1..Len(paperOptions) :
         \E nt \in TierEdits(paperOptions[i], PaperAddMinAmount) :
            Render(bindingOptions,
                   UpdateOption(paperOptions, paperOptions[i].id, "tiers", nt))
    /\ QuoterFrame

EditBasePrice ==
    /\ nEdits < MaxEdits
    /\ nEdits' = nEdits + 1
    /\ UNCHANGED <<selectedBindingId, selectedInnerPaperId, quantity, manualPages>>
    /\ UNCHANGED <<manualColor, manualBw, addons>>
    /\ \E p \in EditBasePrices :
        \/ \E i \in 1..Len(bindingOptions) :
                Render(UpdateOption(bindingOptions, bindingOptions[i].id, "basePrice", p),
                       paperOptions)
        \/ \E i \in 1..Len(paperOptions) :
                Render(bindingOptions,
                       UpdateOption(paperOptions, paperOptions[i].id, "basePrice", p))
    /\ QuoterFrame

NextQuoter ==
    \/ SetQuantity
    \/ SetManualPages
    \/ SetSelectedBindingId
    \/ SetSelectedInnerPaperId
    \/ EditBindingTiers
    \/ EditPaperTiers
    \/ EditBasePrice

ColorCounts == {0, 3}
BwCounts == {0, 2}

\* onChange of the colour-page input: setManualColor(Number(value))
SetManualColor ==
    \E v \in ColorCounts :
        /\ manualColor' = v
        /\ UNCHANGED <<selectedBindingId,
                       selectedInnerPaperId, quantity, manualPages, manualBw,
                       addons, nEdits>>
        /\ Render(bindingOptions, paperOptions)
        /\ QuoterFrame

\* onChange of the mono-page input: setManualBw(Number(value))
SetManualBw ==
    \E v \in BwCounts :
        /\ manualBw' = v
        /\ UNCHANGED <<selectedBindingId,
                       selectedInnerPaperId, quantity, manualPages, manualColor,
                       addons, nEdits>>
        /\ Render(bindingOptions, paperOptions)
        /\ QuoterFrame

\* click on an add-on button: toggleAddonSelection(id)
toggleAddonSelection ==
    \E k \in 1..Len(addons) :
        /\ addons' = [i \in 1..Len(addons) |->
                        IF addons[i].id = addons[k].id
                        THEN [addons[i] EXCEPT !.selected = ~addons[i].selected]
                        ELSE addons[i]]
        /\ UNCHANGED <<selectedBindingId,
                       selectedInnerPaperId, quantity, manualPages, manualColor,
                       manualBw, nEdits>>
        /\ Render(bindingOptions, paperOptions)
        /\ QuoterFrame

\* the handlers of the quote panel (the settings panel left closed)
NextQuote ==
    \/ SetQuantity
    \/ SetManualPages
    \/ SetManualColor
    \/ SetManualBw
    \/ SetSelectedBindingId
    \/ SetSelectedInnerPaperId
    \/ toggleAddonSelection


(***************************************************************************)
(* PdfToImageConverter.tsx: injectDpiToJpeg                                *)
(***************************************************************************)
MaxBlobLen == 20
MaxCalls == 2

MarkerSOI == 65496        \* 0xFFD8
MarkerAPP0 == 65504       \* 0xFFE0
UnitsOffset == 13
XDensityOffset == 14
YDensityOffset == 16
UnitsPerInch == 1

DpiInputs == {0, 1, 72, 150, 255, 256, 300, 600, 65535, 65836}

\* leading bytes of the inputs: JFIF, EXIF, a bare SOI, PNG, nothing, near misses
Prefixes ==
    { <<255, 216, 255, 224>>, <<255, 216, 255, 225>>, <<255, 216>>,
      <<137, 80, 78, 71>>, <<>>, <<255, 217, 255, 224>>, <<0, 216, 255, 224>> }
FillSeeds == {0, 250}

\* n bytes: the prefix (cut to n), then bytes that differ from offset to offset
MakeBlob(prefix, seed, n) ==
    [i \in 1..n |-> IF i <= Len(prefix) THEN prefix[i] ELSE (seed + 7 * i) % 256]

BlobSet == {MakeBlob(p, s, n) : p \in Prefixes, s \in FillSeeds, n \in 0..MaxBlobLen}

At(b, off) == b[off + 1]

\* DataView accessors: a RangeError when the field does not fit in the buffer
InBuffer(b, off, size) == off >= 0 /\ off + size <= Len(b)
GetUint16(b, off) == At(b, off) * 256 + At(b, off + 1)
SetUint8(b, off, v) == [b EXCEPT ![off + 1] = v % 256]
SetUint16(b, off, v) ==
    [b EXCEPT ![off + 1] = (v % 65536) \div 256, ![off + 2] = (v % 65536) % 256]

\* the promise returned by injectDpiToJpeg: resolved with bytes, or left pending
\* when reader.onload throws before it reaches resolve
Resolved(b) == [settled |-> TRUE, bytes |-> b]
Pending == [settled |-> FALSE, bytes |-> <<>>]

\* a plausible slip: the density fields written little-endian
injectDpiToJpegLE(b, d) ==
    IF ~InBuffer(b, 0, 2) THEN Pending
    ELSE IF GetUint16(b, 0) # MarkerSOI THEN Resolved(b)
    ELSE IF ~InBuffer(b, 2, 2) THEN Pending
    ELSE IF GetUint16(b, 2) # MarkerAPP0 THEN Resolved(b)
    ELSE IF ~InBuffer(b, YDensityOffset, 2) THEN Pending
    ELSE LET b1 == SetUint8(b, UnitsOffset, UnitsPerInch)
             sw == (d % 256) * 256 + ((d % 65536) \div 256)
         IN  Resolved(SetUint16(SetUint16(b1, XDensityOffset, sw), YDensityOffset, sw))

\* a plausible slip: the units byte written one offset too early
injectDpiToJpegOff(b, d) ==
    IF ~InBuffer(b, 0, 2) THEN Pending
    ELSE IF GetUint16(b, 0) # MarkerSOI THEN Resolved(b)
    ELSE IF ~InBuffer(b, 2, 2) THEN Pending
    ELSE IF GetUint16(b, 2) # MarkerAPP0 THEN Resolved(b)
    ELSE IF ~InBuffer(b, YDensityOffset, 2) THEN Pending
    ELSE LET b1 == SetUint8(SetUint8(b, UnitsOffset - 1, UnitsPerInch),
                             UnitsOffset, UnitsPerInch)
         IN  Resolved(SetUint16(SetUint16(b1, XDensityOffset, d), YDensityOffset, d))

\* a plausible slip: an input whose units byte already says dots per inch is
\* taken as tagged and resolved as it is
injectDpiToJpegOnce(b, d) ==
    IF ~InBuffer(b, 0, 2) THEN Pending
    ELSE IF GetUint16(b, 0) # MarkerSOI THEN Resolved(b)
    ELSE IF ~InBuffer(b, 2, 2) THEN Pending
    ELSE IF GetUint16(b, 2) # MarkerAPP0 THEN Resolved(b)
    ELSE IF ~InBuffer(b, YDensityOffset, 2) THEN Pending
    ELSE IF At(b, UnitsOffset) = UnitsPerInch THEN Resolved(b)
    ELSE LET b1 == SetUint8(b, UnitsOffset, UnitsPerInch)
         IN  Resolved(SetUint16(SetUint16(b1, XDensityOffset, d), YDensityOffset, d))

\* reader.onload: the signature test, the three writes, then resolve
injectDpiToJpeg(b, d) ==
    IF ~InBuffer(b, 0, 2) THEN Pending                       \* getUint16(0) throws
    ELSE IF GetUint16(b, 0) # MarkerSOI THEN Resolved(b)
    ELSE IF ~InBuffer(b, 2, 2) THEN Pending                  \* getUint16(2) throws
    ELSE IF GetUint16(b, 2) # MarkerAPP0 THEN Resolved(b)
    ELSE IF ~InBuffer(b, UnitsOffset, 1) THEN Pending        \* setUint8(13) throws
    ELSE IF ~InBuffer(b, XDensityOffset, 2) THEN Pending     \* setUint16(14) throws
    ELSE IF ~InBuffer(b, YDensityOffset, 2) THEN Pending     \* setUint16(16) throws
    ELSE LET b1 == SetUint8(b, UnitsOffset, UnitsPerInch)
             b2 == SetUint16(b1, XDensityOffset, d)
         IN  Resolved(SetUint16(b2, YDensityOffset, d))

IdleInject ==
    /\ jpgIn = <<>>
    /\ jpgDpi = 0
    /\ jpgOut = Pending
    /\ jpgCalls = 0

InitInject ==
    /\ jpgIn \in BlobSet
    /\ jpgDpi \in DpiInputs
    /\ jpgOut = Pending
    /\ jpgCalls = 0

InjectFrame == UNCHANGED <<quoterVars, classVars, anaVars, appVars, convVars, flipVars>>

\* the first call, on the arguments drawn
Inject ==
    /\ jpgCalls = 0
    /\ jpgOut' = injectDpiToJpeg(jpgIn, jpgDpi)
    /\ jpgCalls' = 1
    /\ UNCHANGED <<jpgIn, jpgDpi>>
    /\ InjectFrame

\* a further call on the bytes the previous call resolved with
InjectAgain ==
    /\ jpgCalls >= 1
    /\ jpgCalls < MaxCalls
    /\ jpgOut.settled
    /\ \E d \in DpiInputs :
        /\ jpgIn' = jpgOut.bytes
        /\ jpgDpi' = d
        /\ jpgOut' = injectDpiToJpeg(jpgOut.bytes, d)
    /\ jpgCalls' = jpgCalls + 1
    /\ InjectFrame

NextInject ==
    \/ Inject
    \/ InjectAgain

(***************************************************************************)
(* PdfAnalyzer.tsx: the colour scan (lines 74-80 and 371-380)              *)
(***************************************************************************)
MaxPixels == 5

SampleStride == 16        \* j += 16: every 4th RGBA pixel
ColorThreshold == 18

\* pixels <<R, G, B>>: gray, deltas of exactly 18, deltas of 19 in either
\* direction, and one whose only large delta is R-B
PixelSet ==
    { <<100, 100, 100>>, <<100, 118, 118>>, <<100, 119, 119>>,
      <<100, 100, 119>>, <<119, 100, 100>>, <<100, 110, 120>> }

RECURSIVE SeqsUpTo(_, _)
SeqsUpTo(S, n) ==
    IF n = 0 THEN {<<>>}
    ELSE LET shorter == SeqsUpTo(S, n - 1)
         IN  shorter \cup {Append(q, x) : q \in {r \in shorter : Len(r) = n - 1}, x \in S}

\* ImageData.data of a bitmap: four bytes R, G, B, A (opaque) per pixel
RGBA(pixels) ==
    [k \in 1..(4 * Len(pixels)) |->
        LET px == pixels[((k - 1) \div 4) + 1]
        IN  IF (k - 1) % 4 = 3 THEN 255 ELSE px[((k - 1) % 4) + 1]]

\* the test on the sample at byte offset j, in definition def
SampleIsColor(def, data, j) ==
    LET r == At(data, j)
        g == At(data, j + 1)
        b == At(data, j + 2)
    IN  \/ Abs(r - g) > ColorThreshold
        \/ Abs(g - b) > ColorThreshold
        \/ (def = 2 /\ Abs(r - b) > ColorThreshold)

RECURSIVE ScanFrom(_, _, _, _)
\* for (let j = ...; j < data.length; j += stride) if (test) { isColor = true; break }
ScanFrom(def, data, j, stride) ==
    IF j >= Len(data) THEN FALSE
    ELSE IF SampleIsColor(def, data, j) THEN TRUE
    ELSE ScanFrom(def, data, j + stride, stride)

RECURSIVE ScanAtLeast(_, _, _)
ScanAtLeast(def, data, j) ==
    IF j >= Len(data) THEN FALSE
    ELSE IF \/ Abs(At(data, j) - At(data, j + 1)) >= ColorThreshold
            \/ Abs(At(data, j + 1) - At(data, j + 2)) >= ColorThreshold
            \/ (def = 2 /\ Abs(At(data, j) - At(data, j + 2)) >= ColorThreshold)
         THEN TRUE
    ELSE ScanAtLeast(def, data, j + SampleStride)

\* a plausible slip: >= in place of > in the threshold test
IsColorAtLeast(def, data) == ScanAtLeast(def, data, 0)

\* a plausible slip: every pixel scanned (j += 4)
IsColorEveryPixel(def, data) == ScanFrom(def, data, 0, 4)

\* let isColor = false; for (...) {...}
IsColor(def, data) == ScanFrom(def, data, 0, SampleStride)

IdleClassify ==
    /\ clsDef = 1
    /\ clsData = <<>>
    /\ clsIsColor = FALSE
    /\ clsDone = FALSE

InitClassify ==
    /\ clsDef \in {1, 2}
    /\ clsData \in {RGBA(px) : px \in SeqsUpTo(PixelSet, MaxPixels)}
    /\ clsIsColor = FALSE
    /\ clsDone = FALSE

ClassifyFrame == UNCHANGED <<quoterVars, injectVars, anaVars, appVars, convVars, flipVars>>

Classify ==
    /\ ~clsDone
    /\ clsIsColor' = IsColor(clsDef, clsData)
    /\ clsDone' = TRUE
    /\ UNCHANGED <<clsDef, clsData>>
    /\ ClassifyFrame

NextClassify == Classify

(***************************************************************************)
(* PdfAnalyzer.tsx: the component                                          *)
(***************************************************************************)
MaxPages == 3

LowResFloor == 300
BleedMin == 210
BleedMax == 220

\* native viewport sizes <<width, height>> in points: A4, A4 with bleed,
\* and two sizes at the low-resolution floor
SizeA4 == <<595, 842>>
SizeA4Bleed == <<612, 859>>
SizeLowWidth == <<299, 300>>
SizeLowHeight == <<300, 299>>

\* <<size of page 1, size of the later pages>>
SizePairs ==
    { <<SizeA4, SizeA4>>, <<SizeA4Bleed, SizeA4>>, <<SizeA4, SizeA4Bleed>>,
      <<SizeA4, SizeLowWidth>>, <<SizeLowHeight, SizeA4Bleed>> }

MakePage(sz) == [width |-> sz[1], height |-> sz[2]]

\* documents of 1..MaxPages pages
DocSet ==
    { [i \in 1..n |-> IF i = 1 THEN MakePage(sp[1]) ELSE MakePage(sp[2])] :
        n \in 1..MaxPages, sp \in SizePairs }

NoFile == [present |-> FALSE, pages |-> <<>>]
FileOf(doc) == [present |-> TRUE, pages |-> doc]

\* the canvas content a render can leave: gray, coloured at a sampled pixel,
\* coloured at a pixel the scan skips
RenderedBitmaps ==
    { RGBA(<< <<100, 100, 100>>, <<100, 100, 100>> >>),
      RGBA(<< <<100, 119, 119>>, <<100, 100, 100>> >>),
      RGBA(<< <<100, 100, 100>>, <<100, 119, 119>> >>) }


\* Math.round((pt / 72) * 25.4)
PtToMm(pt) == RoundDiv(pt * 254, 720)

\* a plausible slip: the rendered (scale 0.4) viewport compared with the floor
IsLowResScaled(page) ==
    (page.width * 4) \div 10 < LowResFloor \/ (page.height * 4) \div 10 < LowResFloor

\* viewport.width < 300 || viewport.height < 300, viewport at scale 1
IsLowRes(page) == page.width < LowResFloor \/ page.height < LowResFloor

\* the PageAnalysis pushed for page i (thumbnail left out: an opaque data URL)
Analysis(def, page, i, data) ==
    [pageNumber |-> i,
     isColor |-> IsColor(def, data),
     widthMm |-> PtToMm(page.width),
     heightMm |-> PtToMm(page.height),
     isLowRes |-> IsLowRes(page)]

\* results.filter(r => r.isColor).map(r => r.pageNumber)
ColorPages(results) ==
    LET kept == SelectSeq(results, LAMBDA r : r.isColor)
    IN  [k \in 1..Len(kept) |-> kept[k].pageNumber]

\* a plausible slip: the mono list built with the same test as the colour list
BwPagesSameTest(results) == ColorPages(results)

\* results.filter(r => !r.isColor).map(r => r.pageNumber)
BwPages(results) ==
    LET kept == SelectSeq(results, LAMBDA r : ~r.isColor)
    IN  [k \in 1..Len(kept) |-> kept[k].pageNumber]

\* useMemo stats: isNull stands for the null returned for empty results;
\* spine is in hundredths ((n / 2) * 0.1 = 0.05 n)
Stats(results) ==
    IF Len(results) = 0
    THEN [isNull |-> TRUE]
    ELSE [isNull |-> FALSE,
          color |-> Len(ColorPages(results)),
          bw |-> Len(BwPages(results)),
          total |-> Len(results),
          spine |-> 5 * Len(results),
          mainSize |-> <<results[1].widthMm, results[1].heightMm>>,
          isBleed |-> results[1].widthMm > BleedMin /\ results[1].widthMm < BleedMax,
          hasLowRes |-> \E k \in 1..Len(results) : results[k].isLowRes,
          colorPagesArr |-> ColorPages(results),
          bwPagesArr |-> BwPages(results)]

\* the locals of analyzePdf; alerted: the catch block has shown its alert
IdleRun ==
    [pc |-> "idle", file |-> NoFile, numPages |-> 0, i |-> 0, newResults |-> <<>>,
     alerted |-> FALSE]
NoSharedData == [isNull |-> TRUE]

InitAnalyzerState ==
    /\ aFile = NoFile
    /\ aIsProcessing = FALSE
    /\ aProgress = 0
    /\ aResults = <<>>
    /\ aRun = IdleRun

IdleAnalyzer ==
    /\ anaDef = 1
    /\ InitAnalyzerState

InitAnalyzer ==
    /\ anaDef \in {1, 2}
    /\ InitAnalyzerState

\* App: activeModule starts at Module.ANALYZER, sharedData at null
InitApp ==
    /\ activeModule = "analyzer"
    /\ sharedData = NoSharedData

AnalyzerFrame == UNCHANGED <<quoterVars, injectVars, classVars, convVars, flipVars>>

\* handleFileChange: setFile(files[0]); setResults([])
AHandleFileChange ==
    /\ activeModule = "analyzer"
    /\ \E doc \in DocSet : aFile' = FileOf(doc)
    /\ aResults' = <<>>
    /\ UNCHANGED <<anaDef, aIsProcessing, aProgress, aRun, appVars>>
    /\ AnalyzerFrame

\* click on the analyse button (shown when file && !isProcessing &&
\* results.length === 0): analyzePdf up to its first await
AnalyzeStart ==
    /\ activeModule = "analyzer"
    /\ aFile.present
    /\ ~aIsProcessing
    /\ Len(aResults) = 0
    /\ aIsProcessing' = TRUE
    /\ aProgress' = 0
    /\ aRun' = [pc |-> "open", file |-> aFile, numPages |-> 0, i |-> 0,
                newResults |-> <<>>, alerted |-> FALSE]
    /\ UNCHANGED <<anaDef, aFile, aResults, appVars>>
    /\ AnalyzerFrame

\* analyzePdf with the finally block left out: isProcessing stays as it was
AnalyzeCatchNoFinally ==
    /\ aRun' = [IdleRun EXCEPT !.pc = "failed", !.i = aRun.i, !.alerted = TRUE]
    /\ UNCHANGED <<anaDef, aFile, aIsProcessing, aProgress, aResults, appVars>>
    /\ AnalyzerFrame

\* catch (alert) and finally, after a rejected await; of the locals only the
\* page the run was at (0: the document was not open yet) is kept
AnalyzeCatch ==
    /\ aIsProcessing' = FALSE
    /\ aRun' = [IdleRun EXCEPT !.pc = "failed", !.i = aRun.i, !.alerted = TRUE]
    /\ UNCHANGED <<anaDef, aFile, aProgress, aResults, appVars>>
    /\ AnalyzerFrame

\* the loop test for page i with the collected results nr: the next getPage,
\* or setResults(newResults) and finally
AnalyzeLoop(i, nr, prog) ==
    IF i <= aRun.numPages
    THEN /\ aRun' = [aRun EXCEPT !.pc = "getPage", !.i = i, !.newResults = nr]
         /\ aProgress' = prog
         /\ UNCHANGED <<aResults, aIsProcessing>>
    ELSE /\ aRun' = [aRun EXCEPT !.pc = "done", !.i = i, !.newResults = nr]
         /\ aProgress' = prog
         /\ aResults' = nr
         /\ aIsProcessing' = FALSE

\* file.arrayBuffer() and getDocument resolve: numPages, then the first getPage
AnalyzeOpened ==
    /\ aRun.pc = "open"
    /\ aRun' = [aRun EXCEPT !.pc = "getPage", !.i = 1,
                            !.numPages = Len(aRun.file.pages)]
    /\ UNCHANGED <<anaDef, aFile, aIsProcessing, aProgress, aResults, appVars>>
    /\ AnalyzerFrame

\* file.arrayBuffer() or getDocument rejects
AnalyzeOpenFailed ==
    /\ aRun.pc = "open"
    /\ AnalyzeCatch

\* getPage(i) resolves and a 2D context is obtained: up to await page.render
AnalyzeGotPage ==
    /\ aRun.pc = "getPage"
    /\ aRun' = [aRun EXCEPT !.pc = "render"]
    /\ UNCHANGED <<anaDef, aFile, aIsProcessing, aProgress, aResults, appVars>>
    /\ AnalyzerFrame

\* getPage(i) resolves and getContext returns null: continue
AnalyzeNoContext ==
    /\ aRun.pc = "getPage"
    /\ AnalyzeLoop(aRun.i + 1, aRun.newResults, aProgress)
    /\ UNCHANGED <<anaDef, aFile, appVars>>
    /\ AnalyzerFrame

\* getPage(i) rejects
AnalyzeGetPageFailed ==
    /\ aRun.pc = "getPage"
    /\ AnalyzeCatch

\* page.render resolves: the scan, the push, setProgress, and the loop test
AnalyzeRendered ==
    /\ aRun.pc = "render"
    /\ \E data \in RenderedBitmaps :
          AnalyzeLoop(aRun.i + 1,
                      Append(aRun.newResults,
                             Analysis(anaDef, aRun.file.pages[aRun.i], aRun.i, data)),
                      RoundDiv(100 * aRun.i, aRun.numPages))
    /\ UNCHANGED <<anaDef, aFile, appVars>>
    /\ AnalyzerFrame

\* page.render rejects
AnalyzeRenderFailed ==
    /\ aRun.pc = "render"
    /\ AnalyzeCatch

\* click on the transfer button (shown when stats is not null):
\* onTransfer -> App.handleTransferToQuote: setSharedData and
\* setActiveModule(QUOTER); the analyzer is unmounted and its state dropped
Transfer ==
    /\ activeModule = "analyzer"
    /\ ~Stats(aResults).isNull
    /\ activeModule' = "quoter"
    /\ sharedData' = [isNull |-> FALSE,
                      totalPages |-> Stats(aResults).total,
                      colorCount |-> Stats(aResults).color,
                      bwCount |-> Stats(aResults).bw,
                      spine |-> Stats(aResults).spine]
    /\ aFile' = NoFile
    /\ aIsProcessing' = FALSE
    /\ aProgress' = 0
    /\ aResults' = <<>>
    /\ aRun' = IdleRun
    /\ UNCHANGED anaDef
    /\ AnalyzerFrame

NextAnalyzer ==
    \/ AHandleFileChange
    \/ AnalyzeStart
    \/ AnalyzeOpened
    \/ AnalyzeOpenFailed
    \/ AnalyzeGotPage
    \/ AnalyzeNoContext
    \/ AnalyzeGetPageFailed
    \/ AnalyzeRendered
    \/ AnalyzeRenderFailed
    \/ Transfer

(***************************************************************************)
(* PdfToImageConverter.tsx: the component (lines 19-156, 170-274)          *)
(* Lengths in mm are kept in tenths where the code rounds to one decimal.  *)
(***************************************************************************)
MaxConvPages == 2
MaxRuns == 1
MaxSettingChanges == 2
MaxFileChanges == 1

DefaultDpi == 300
DpiChoices == {72, 150, 300, 600}
PresetWidths == {841, 594}
TypedWidths == {-5, 0, 210}

\* targetWidthMm: '' or a number
Unset == [set |-> FALSE, mm |-> 0]
WidthOf(mm) == [set |-> TRUE, mm |-> mm]
TargetInputs == {Unset} \cup {WidthOf(mm) : mm \in PresetWidths \cup TypedWidths}

\* <<size of page 1, size of the later pages>>
ConvSizePairs == { <<SizeA4, SizeA4Bleed>>, <<SizeLowHeight, SizeA4>> }

ConvDocSet ==
    { [i \in 1..n |-> IF i = 1 THEN MakePage(sp[1]) ELSE MakePage(sp[2])] :
        n \in 1..MaxConvPages, sp \in ConvSizePairs }

NoInfo == [isNull |-> TRUE]

\* Math.round((pt / 72) * 25.4 * 10) / 10, in tenths of a mm
PtToMmTenths(pt) == RoundDiv(pt * 2540, 720)

\* a plausible slip: the tenth is cut off instead of rounded
PxToMmTenthsTrunc(px, d) == (px * 254) \div d

\* Math.round((px / dpi) * 25.4 * 10) / 10, in tenths of a mm
PxToMmTenths(px, d) == RoundDiv(px * 254, d)

RECURSIVE Gcd(_, _)
Gcd(a, b) == IF b = 0 THEN a ELSE Gcd(b, a % b)

\* the number n / d (d > 0), in lowest terms
Frac(n, d) == LET g == Gcd(n, d) IN [num |-> n \div g, den |-> d \div g]

\* a plausible slip: a target of zero taken as a target
ResolveRenderScaleNonNeg(target, d, widthPts) ==
    IF target.set /\ target.mm >= 0
    THEN [mode |-> "target", scale |-> Frac(target.mm * 10 * d, 254 * widthPts)]
    ELSE [mode |-> "dpi", scale |-> Frac(d, 72)]

\* lines 85-91: (targetWidthMm / 25.4) * dpi / originalWidthPts, or dpi / 72
ResolveRenderScale(target, d, widthPts) ==
    IF target.set /\ target.mm > 0
    THEN [mode |-> "target", scale |-> Frac(target.mm * 10 * d, 254 * widthPts)]
    ELSE [mode |-> "dpi", scale |-> Frac(d, 72)]

\* a plausible slip: Math.round in place of Math.floor
RoundScaled(x, f) == RoundDiv(x * f.num, f.den)

\* Math.floor(viewport dimension at scale f)
FloorScaled(x, f) == (x * f.num) \div f.den

NullBlob == [isNull |-> TRUE, bytes |-> <<>>]
BlobOf(b) == [isNull |-> FALSE, bytes |-> b]

\* the start of what canvas.toBlob(.., 'image/jpeg', ..) encodes: SOI, APP0,
\* length 16, "JFIF\0", version 1.1, units 0, densities 1:1, no thumbnail
EncodedJpeg ==
    << 255, 216, 255, 224, 0, 16, 74, 70, 73, 70, 0, 1, 1, 0, 0, 1, 0, 1, 0, 0 >>

NoCanvas == [width |-> 0, height |-> 0]

\* the locals of a processPdf call that has not opened its document yet
NewRun(f, d, target) ==
    [ pc |-> "open", file |-> f, dpi |-> d, targetWidthMm |-> target,
      numPages |-> 0, i |-> 0, scalePage |-> 0, mode |-> "none",
      renderScale |-> Frac(0, 1), canvas |-> NoCanvas,
      rawBlob |-> NullBlob, finalBlob |-> NullBlob, newPages |-> <<>>,
      alerted |-> FALSE ]

InitConverter ==
    /\ cFile = NoFile
    /\ originalPdfInfo = NoInfo
    /\ cIsProcessing = FALSE
    /\ cProgress = 0
    /\ cPages = <<>>
    /\ dpi = DefaultDpi
    /\ targetWidthMm = Unset
    /\ cRuns = <<>>
    /\ cInfoReads = <<>>
    /\ cSettingChanges = 0
    /\ cFileChanges = 0

\* App.tsx after the converter's navigation item was clicked
InitAppConverter ==
    /\ activeModule = "converter"
    /\ sharedData = NoSharedData

ConvFrame == UNCHANGED <<quoterVars, injectVars, classVars, anaVars, appVars, flipVars>>

\* handleFileChange up to its first await: setFile, setPages([])
CHandleFileChange ==
    /\ activeModule = "converter"
    /\ cFileChanges < MaxFileChanges
    /\ \E doc \in ConvDocSet :
        /\ cFile' = FileOf(doc)
        /\ cInfoReads' = Append(cInfoReads, FileOf(doc))
    /\ cPages' = <<>>
    /\ cFileChanges' = cFileChanges + 1
    /\ UNCHANGED <<originalPdfInfo, cIsProcessing, cProgress, dpi, targetWidthMm,
                   cRuns, cSettingChanges>>
    /\ ConvFrame

\* handleFileChange after its awaits: setOriginalPdfInfo from page 1
InfoRead ==
    /\ \E k \in 1..Len(cInfoReads) :
        /\ originalPdfInfo' =
              [ isNull |-> FALSE,
                widthMm |-> PtToMmTenths(cInfoReads[k].pages[1].width),
                heightMm |-> PtToMmTenths(cInfoReads[k].pages[1].height) ]
        /\ cInfoReads' = RemoveAt(cInfoReads, k)
    /\ UNCHANGED <<cFile, cIsProcessing, cProgress, cPages, dpi, targetWidthMm,
                   cRuns, cSettingChanges, cFileChanges>>
    /\ ConvFrame

\* handleFileChange: an await rejects, the catch logs it
InfoReadFailed ==
    /\ \E k \in 1..Len(cInfoReads) : cInfoReads' = RemoveAt(cInfoReads, k)
    /\ UNCHANGED <<cFile, originalPdfInfo, cIsProcessing, cProgress, cPages, dpi,
                   targetWidthMm, cRuns, cSettingChanges, cFileChanges>>
    /\ ConvFrame

\* one of the four resolution buttons of the settings panel
SetDpi ==
    /\ activeModule = "converter"
    /\ cFile.present
    /\ cSettingChanges < MaxSettingChanges
    /\ \E v \in DpiChoices : dpi' = v
    /\ cSettingChanges' = cSettingChanges + 1
    /\ UNCHANGED <<cFile, originalPdfInfo, cIsProcessing, cProgress, cPages,
                   targetWidthMm, cRuns, cInfoReads, cFileChanges>>
    /\ ConvFrame

\* the reset link, a preset button, or the number input of the settings panel
SetTargetWidthMm ==
    /\ activeModule = "converter"
    /\ cFile.present
    /\ cSettingChanges < MaxSettingChanges
    /\ \E t \in TargetInputs : targetWidthMm' = t
    /\ cSettingChanges' = cSettingChanges + 1
    /\ UNCHANGED <<cFile, originalPdfInfo, cIsProcessing, cProgress, cPages, dpi,
                   cRuns, cInfoReads, cFileChanges>>
    /\ ConvFrame

\* processPdf up to its first await, called by either button: the upper one is
\* rendered when file && !isProcessing, the panel's one whenever file is set
ProcessPdf ==
    /\ activeModule = "converter"
    /\ cFile.present
    /\ Len(cRuns) < MaxRuns
    /\ cIsProcessing' = TRUE
    /\ cProgress' = 0
    /\ cRuns' = Append(cRuns, NewRun(cFile, dpi, targetWidthMm))
    /\ UNCHANGED <<cFile, originalPdfInfo, cPages, dpi, targetWidthMm, cInfoReads,
                   cSettingChanges, cFileChanges>>
    /\ ConvFrame

MaxOverlapRuns == 1

\* processPdf up to its first await, called by the panel's button (rendered
\* whenever file is set, isProcessing or not) while a run is in flight
UpdateRenderList ==
    /\ activeModule = "converter"
    /\ cFile.present
    /\ cIsProcessing
    /\ Len(cRuns) >= 1
    /\ Len(cRuns) < MaxRuns + MaxOverlapRuns
    /\ cIsProcessing' = TRUE
    /\ cProgress' = 0
    /\ cRuns' = Append(cRuns, NewRun(cFile, dpi, targetWidthMm))
    /\ UNCHANGED <<cFile, originalPdfInfo, cPages, dpi, targetWidthMm, cInfoReads,
                   cSettingChanges, cFileChanges>>
    /\ ConvFrame

ConvUntouched ==
    UNCHANGED <<cFile, originalPdfInfo, dpi, targetWidthMm, cInfoReads,
                cSettingChanges, cFileChanges>>

\* catch: alert; finally: setIsProcessing(false). Of the locals only the page
\* the run was at (0: the document was not open yet) is kept.
ConvCatch(r) ==
    /\ cIsProcessing' = FALSE
    /\ cRuns' = [cRuns EXCEPT ![r] =
                    [NewRun(cRuns[r].file, cRuns[r].dpi, cRuns[r].targetWidthMm)
                        EXCEPT !.pc = "failed", !.i = cRuns[r].i, !.alerted = TRUE]]
    /\ UNCHANGED <<cProgress, cPages>>
    /\ ConvUntouched
    /\ ConvFrame

\* the end of one pass of the for loop in run: the next getPage, or
\* setPages(newPages) and finally setIsProcessing(false)
ConvLoop(r, run) ==
    IF run.i < run.numPages
    THEN /\ cRuns' = [cRuns EXCEPT ![r] = [run EXCEPT !.i = run.i + 1, !.pc = "getPage"]]
         /\ UNCHANGED <<cPages, cIsProcessing>>
    ELSE /\ cRuns' = [cRuns EXCEPT ![r] = [run EXCEPT !.pc = "done"]]
         /\ cPages' = run.newPages
         /\ cIsProcessing' = FALSE

\* file.arrayBuffer() and getDocument(..).promise resolve
ConvOpened ==
    \E r \in 1..Len(cRuns) :
        /\ cRuns[r].pc = "open"
        /\ LET n == Len(cRuns[r].file.pages)
               run == [cRuns[r] EXCEPT !.numPages = n, !.i = 0]
           IN  ConvLoop(r, run)
        /\ UNCHANGED cProgress
        /\ ConvUntouched
        /\ ConvFrame

\* file.arrayBuffer() or getDocument(..).promise rejects
ConvOpenFailed ==
    \E r \in 1..Len(cRuns) :
        /\ cRuns[r].pc = "open"
        /\ ConvCatch(r)

\* lines 81-96 of run: the viewport, renderScale and the canvas of page i
WithCanvas(run) ==
    LET page == run.file.pages[run.i]
        res == ResolveRenderScale(run.targetWidthMm, run.dpi, page.width)
    IN  [run EXCEPT !.scalePage = run.i,
                    !.mode = res.mode,
                    !.renderScale = res.scale,
                    !.canvas = [width |-> FloorScaled(page.width, res.scale),
                                height |-> FloorScaled(page.height, res.scale)]]

\* pdf.getPage(i) resolves and getContext('2d') returns a context
ConvGotPage ==
    \E r \in 1..Len(cRuns) :
        /\ cRuns[r].pc = "getPage"
        /\ cRuns' = [cRuns EXCEPT ![r] = [WithCanvas(cRuns[r]) EXCEPT !.pc = "render"]]
        /\ UNCHANGED <<cIsProcessing, cProgress, cPages>>
        /\ ConvUntouched
        /\ ConvFrame

\* pdf.getPage(i) resolves and getContext('2d') returns null: continue
ConvNoContext ==
    \E r \in 1..Len(cRuns) :
        /\ cRuns[r].pc = "getPage"
        /\ ConvLoop(r, WithCanvas(cRuns[r]))
        /\ UNCHANGED cProgress
        /\ ConvUntouched
        /\ ConvFrame

\* pdf.getPage(i) rejects
ConvGetPageFailed ==
    \E r \in 1..Len(cRuns) :
        /\ cRuns[r].pc = "getPage"
        /\ ConvCatch(r)

\* page.render(..).promise resolves; canvas.toBlob is called
ConvRendered ==
    \E r \in 1..Len(cRuns) :
        /\ cRuns[r].pc = "render"
        /\ cRuns' = [cRuns EXCEPT ![r].pc = "encode"]
        /\ UNCHANGED <<cIsProcessing, cProgress, cPages>>
        /\ ConvUntouched
        /\ ConvFrame

\* page.render(..).promise rejects
ConvRenderFailed ==
    \E r \in 1..Len(cRuns) :
        /\ cRuns[r].pc = "render"
        /\ ConvCatch(r)

\* lines 111-115 of run: finalBlob for the rawBlob that toBlob called back with
\* (the promise of injectDpiToJpeg has to settle for the run to go on)
WithBlobs(run, raw) ==
    IF raw.isNull
    THEN [run EXCEPT !.rawBlob = raw, !.finalBlob = NullBlob]
    ELSE [run EXCEPT !.rawBlob = raw,
                     !.finalBlob = BlobOf(injectDpiToJpeg(raw.bytes, run.dpi).bytes)]

InjectSettles(run, raw) == raw.isNull \/ injectDpiToJpeg(raw.bytes, run.dpi).settled

\* lines 134-144: the PagePreview pushed for page i of run
PagePreview(run) ==
    LET page == run.file.pages[run.i]
    IN  [ pageNumber |-> run.i,
          originalWidth |-> page.width,
          originalHeight |-> page.height,
          blob |-> run.finalBlob,
          outputWidthPx |-> run.canvas.width,
          outputHeightPx |-> run.canvas.height,
          outputMmW |-> PxToMmTenths(run.canvas.width, run.dpi),
          outputMmH |-> PxToMmTenths(run.canvas.height, run.dpi) ]

\* lines 111-148: toBlob calls back with a JPEG or with null, the injection
\* settles, the thumbnail is drawn (or has no context): push, setProgress, the
\* canvas is sized 0 x 0, and the loop goes on
ConvPageDone ==
    \E r \in 1..Len(cRuns), raw \in {NullBlob, BlobOf(EncodedJpeg)} :
        /\ cRuns[r].pc = "encode"
        /\ InjectSettles(cRuns[r], raw)
        /\ LET run == WithBlobs(cRuns[r], raw)
               pushed == [run EXCEPT !.newPages = Append(run.newPages, PagePreview(run)),
                                     !.canvas = NoCanvas,
                                     !.rawBlob = NullBlob,
                                     !.finalBlob = NullBlob]
           IN  /\ cProgress' = RoundDiv(100 * run.i, run.numPages)
               /\ ConvLoop(r, pushed)
        /\ ConvUntouched
        /\ ConvFrame

\* the thumbnail's page.render(..).promise rejects
ConvThumbFailed ==
    \E r \in 1..Len(cRuns) :
        /\ cRuns[r].pc = "encode"
        /\ ConvCatch(r)

NextConverter ==
    \/ CHandleFileChange
    \/ InfoRead
    \/ InfoReadFailed
    \/ SetDpi
    \/ SetTargetWidthMm
    \/ ProcessPdf
    \/ ConvOpened
    \/ ConvOpenFailed
    \/ ConvGotPage
    \/ ConvNoContext
    \/ ConvGetPageFailed
    \/ ConvRendered
    \/ ConvRenderFailed
    \/ ConvPageDone
    \/ ConvThumbFailed

(***************************************************************************)
(* FlipbookViewer.tsx                                                      *)
(***************************************************************************)
MaxFlipFileChanges == 2

\* the documents offered to the viewer, by their number of pages
FlipDocs == {1, 2, 5}

NoFlipFile == [present |-> FALSE, numPages |-> 0]
FlipFileOf(n) == [present |-> TRUE, numPages |-> n]

\* no timer pending; a pending timer keeps the direction and the pages.length
\* of the render in which goToNext / goToPrev was called
NoTimer == [pending |-> FALSE, dir |-> "none", len |-> 0]

\* the locals of a loadPdf call that has not opened its document yet
NewLoad(f) ==
    [pc |-> "open", file |-> f, numPages |-> 0, i |-> 0, pageImages |-> <<>>]

Min(a, b) == IF a < b THEN a ELSE b
Max(a, b) == IF a > b THEN a ELSE b

InitFlipbook ==
    /\ fFile = NoFlipFile
    /\ fPages = <<>>
    /\ currentPage = 0
    /\ isLoading = FALSE
    /\ flipDirection = "none"
    /\ fLoads = <<>>
    /\ fTimer = NoTimer
    /\ fFileChanges = 0

IdleFlipbook == InitFlipbook

\* App.tsx after the flipbook's navigation item was clicked
InitAppFlipbook ==
    /\ activeModule = "flipbook"
    /\ sharedData = NoSharedData

FlipFrame == UNCHANGED <<quoterVars, injectVars, classVars, anaVars, appVars, convVars>>

\* handleFileChange: setFile; the effect on [file] then calls loadPdf, which
\* runs up to its first await: setIsLoading(true), setPages([])
FHandleFileChange ==
    /\ activeModule = "flipbook"
    /\ fFileChanges < MaxFlipFileChanges
    /\ \E n \in FlipDocs :
        /\ fFile' = FlipFileOf(n)
        /\ fLoads' = Append(fLoads, NewLoad(FlipFileOf(n)))
    /\ isLoading' = TRUE
    /\ fPages' = <<>>
    /\ fFileChanges' = fFileChanges + 1
    /\ UNCHANGED <<currentPage, flipDirection, fTimer>>
    /\ FlipFrame

FlipUntouched == UNCHANGED <<fFile, flipDirection, fTimer, fFileChanges>>

\* catch: alert; finally: setIsLoading(false)
LoadCatch(r) ==
    /\ isLoading' = FALSE
    /\ fLoads' = [fLoads EXCEPT ![r].pc = "failed"]
    /\ UNCHANGED <<fPages, currentPage>>
    /\ FlipUntouched
    /\ FlipFrame

\* the end of one pass of the for loop in load: the next page, or
\* setPages(pageImages), setCurrentPage(0) and finally setIsLoading(false)
LoadLoop(r, load) ==
    IF load.i < load.numPages
    THEN /\ fLoads' = [fLoads EXCEPT ![r] = [load EXCEPT !.i = load.i + 1, !.pc = "page"]]
         /\ UNCHANGED <<fPages, currentPage, isLoading>>
    ELSE /\ fLoads' = [fLoads EXCEPT ![r] = [load EXCEPT !.pc = "done"]]
         /\ fPages' = load.pageImages
         /\ currentPage' = 0
         /\ isLoading' = FALSE

\* file.arrayBuffer(), getDocument and the getPage(1) for isLandscape resolve
LoadOpened ==
    \E r \in 1..Len(fLoads) :
        /\ fLoads[r].pc = "open"
        /\ LoadLoop(r, [fLoads[r] EXCEPT !.numPages = fLoads[r].file.numPages, !.i = 0])
        /\ FlipUntouched
        /\ FlipFrame

\* one of the three rejects
LoadOpenFailed ==
    \E r \in 1..Len(fLoads) :
        /\ fLoads[r].pc = "open"
        /\ LoadCatch(r)

\* getPage(i) and page.render resolve: the image of page i is pushed
LoadPageRendered ==
    \E r \in 1..Len(fLoads) :
        /\ fLoads[r].pc = "page"
        /\ LoadLoop(r, [fLoads[r] EXCEPT
                            !.pageImages = Append(fLoads[r].pageImages, fLoads[r].i)])
        /\ FlipUntouched
        /\ FlipFrame

\* getPage(i) resolves and getContext('2d') returns null: continue
LoadPageNoContext ==
    \E r \in 1..Len(fLoads) :
        /\ fLoads[r].pc = "page"
        /\ LoadLoop(r, fLoads[r])
        /\ FlipUntouched
        /\ FlipFrame

\* getPage(i) or page.render rejects
LoadPageFailed ==
    \E r \in 1..Len(fLoads) :
        /\ fLoads[r].pc = "page"
        /\ LoadCatch(r)

\* goToNext: the guarded branch; the timer closes over pages of this render
goToNext ==
    /\ activeModule = "flipbook"
    /\ currentPage < Len(fPages) - 1
    /\ ~isLoading
    /\ flipDirection = "none"
    /\ flipDirection' = "next"
    /\ fTimer' = [pending |-> TRUE, dir |-> "next", len |-> Len(fPages)]
    /\ UNCHANGED <<fFile, fPages, currentPage, isLoading, fLoads, fFileChanges>>
    /\ FlipFrame

\* goToPrev: the guarded branch
goToPrev ==
    /\ activeModule = "flipbook"
    /\ currentPage > 0
    /\ ~isLoading
    /\ flipDirection = "none"
    /\ flipDirection' = "prev"
    /\ fTimer' = [pending |-> TRUE, dir |-> "prev", len |-> Len(fPages)]
    /\ UNCHANGED <<fFile, fPages, currentPage, isLoading, fLoads, fFileChanges>>
    /\ FlipFrame

\* the updater given to setCurrentPage by goToNext's timer
NextPageFrom(prev, len) == Min(prev + (IF prev = 0 THEN 1 ELSE 2), len - 1)

\* the updater given to setCurrentPage by goToPrev's timer
PrevPageFrom(prev) == Max(prev - (IF prev <= 2 THEN 1 ELSE 2), 0)

\* the 500 ms timer fires: setCurrentPage(updater), setFlipDirection(null)
FlipTimerFires ==
    /\ fTimer.pending
    /\ currentPage' = IF fTimer.dir = "next"
                      THEN NextPageFrom(currentPage, fTimer.len)
                      ELSE PrevPageFrom(currentPage)
    /\ flipDirection' = "none"
    /\ fTimer' = NoTimer
    /\ UNCHANGED <<fFile, fPages, isLoading, fLoads, fFileChanges>>
    /\ FlipFrame

NextFlipbook ==
    \/ FHandleFileChange
    \/ LoadOpened
    \/ LoadOpenFailed
    \/ LoadPageRendered
    \/ LoadPageNoContext
    \/ LoadPageFailed
    \/ goToNext
    \/ goToPrev
    \/ FlipTimerFires

(***************************************************************************)
(* Specifications: one per component                                       *)
(***************************************************************************)
InitSpecQuoter ==
    InitQuoter /\ IdleInject /\ IdleClassify /\ IdleAnalyzer /\ InitApp /\ InitConverter /\ IdleFlipbook
SpecQuoter == InitSpecQuoter /\ [][NextQuoter]_vars

InitSpecQuote ==
    InitQuoter /\ IdleInject /\ IdleClassify /\ IdleAnalyzer /\ InitApp /\ InitConverter /\ IdleFlipbook
SpecQuote == InitSpecQuote /\ [][NextQuote]_vars

InitSpecInject ==
    InitInject /\ InitQuoter /\ IdleClassify /\ IdleAnalyzer /\ InitApp /\ InitConverter /\ IdleFlipbook
SpecInject == InitSpecInject /\ [][NextInject]_vars

InitSpecClassify ==
    InitClassify /\ InitQuoter /\ IdleInject /\ IdleAnalyzer /\ InitApp /\ InitConverter /\ IdleFlipbook
SpecClassify == InitSpecClassify /\ [][NextClassify]_vars

InitSpecAnalyzer ==
    InitAnalyzer /\ InitQuoter /\ IdleInject /\ IdleClassify /\ InitApp /\ InitConverter /\ IdleFlipbook
SpecAnalyzer == InitSpecAnalyzer /\ [][NextAnalyzer]_vars

\* the converter with its settings left at their defaults and the panel's
\* button pressed during a run
NextOverlap ==
    \/ CHandleFileChange
    \/ InfoRead
    \/ InfoReadFailed
    \/ ProcessPdf
    \/ UpdateRenderList
    \/ ConvOpened
    \/ ConvOpenFailed
    \/ ConvGotPage
    \/ ConvNoContext
    \/ ConvGetPageFailed
    \/ ConvRendered
    \/ ConvRenderFailed
    \/ ConvPageDone
    \/ ConvThumbFailed

InitSpecConverter ==
    InitConverter /\ InitQuoter /\ IdleInject /\ IdleClassify /\ IdleAnalyzer /\ InitAppConverter
        /\ IdleFlipbook
SpecConverter == InitSpecConverter /\ [][NextConverter]_vars

InitSpecOverlap ==
    InitConverter /\ InitQuoter /\ IdleInject /\ IdleClassify /\ IdleAnalyzer /\ InitAppConverter
        /\ IdleFlipbook
SpecOverlap == InitSpecOverlap /\ [][NextOverlap]_vars

InitSpecFlipbook ==
    InitFlipbook /\ InitQuoter /\ IdleInject /\ IdleClassify /\ IdleAnalyzer /\ InitConverter
        /\ InitAppFlipbook
SpecFlipbook == InitSpecFlipbook /\ [][NextFlipbook]_vars

\* App.tsx with the analyzer or the converter mounted (navigation, line 51)
InitAppDocRuns ==
    /\ activeModule \in {"analyzer", "converter"}
    /\ sharedData = NoSharedData

\* the two components that run over the pages of a document
NextDocRuns ==
    \/ NextAnalyzer
    \/ NextConverter

InitSpecDocRuns ==
    InitAnalyzer /\ InitConverter /\ InitQuoter /\ IdleInject /\ IdleClassify /\ InitAppDocRuns
        /\ IdleFlipbook
SpecDocRuns == InitSpecDocRuns /\ [][NextDocRuns]_vars

(***************************************************************************)
(* Claims                                                                  *)
(***************************************************************************)

\* The price the tier rule prescribes for option opt at the compared amount:
\* a tier with the greatest minAmount among those with minAmount <= amount,
\* the base price when there is none.
TierRuleHolds(options, id, amount, price) ==
    LET k == FindOption(options, id)
    IN  k # 0 =>
          LET tiers == options[k].tiers
              Q == {i \in 1..Len(tiers) : tiers[i].minAmount <= amount}
          IN  IF Q = {} THEN price = options[k].basePrice
              ELSE \E i \in Q :
                      /\ \A j \in Q : tiers[j].minAmount <= tiers[i].minAmount
                      /\ price = tiers[i].price

\* C1: the resolved binding price (compared against quantity) and the resolved
\* paper price (compared against the page count) are the price of a tier with
\* the greatest minAmount among the tiers with minAmount <= q, and the option's
\* basePrice when no tier has minAmount <= q.
C1_TierResolution ==
    /\ TierRuleHolds(bindingOptions, selectedBindingId, quantity, currentBindingPrice)
    /\ TierRuleHolds(paperOptions, selectedInnerPaperId, manualPages, currentPaperPrice)

\* q equals the minAmount of one tier, a lower tier with another price also
\* qualifies, and the tier at q is the one resolved
C1_Witness ==
    LET k == FindOption(bindingOptions, selectedBindingId)
    IN  /\ k # 0
        /\ \E i, j \in 1..Len(bindingOptions[k].tiers) :
              LET tiers == bindingOptions[k].tiers
              IN  /\ tiers[i].minAmount = quantity
                  /\ tiers[j].minAmount < quantity
                  /\ tiers[i].price # tiers[j].price
                  /\ currentBindingPrice = tiers[i].price

\* the four signature bytes FF D8 FF E0
HasSignature(b) ==
    /\ Len(b) >= 4
    /\ b[1] = 255 /\ b[2] = 216 /\ b[3] = 255 /\ b[4] = 224

\* C2: for an input of at least 18 bytes with the signature and a dpi in
\* 0..65535, the output has byte 13 = 1 and bytes 14-15 and 16-17 read
\* big-endian as dpi.
C2_DensityRoundTrip ==
    (jpgCalls >= 1 /\ Len(jpgIn) >= 18 /\ HasSignature(jpgIn) /\ jpgDpi \in 0..65535)
    => /\ jpgOut.settled
       /\ Len(jpgOut.bytes) >= 18
       /\ jpgOut.bytes[14] = 1
       /\ jpgOut.bytes[15] * 256 + jpgOut.bytes[16] = jpgDpi
       /\ jpgOut.bytes[17] * 256 + jpgOut.bytes[18] = jpgDpi

C2_Witness ==
    /\ jpgCalls >= 1
    /\ Len(jpgIn) >= 18
    /\ HasSignature(jpgIn)
    /\ jpgDpi = 300
    /\ jpgOut.settled
    /\ jpgOut.bytes[15] = 1 /\ jpgOut.bytes[16] = 44
    /\ jpgIn[15] # 1

\* C3: whenever the call produces an output, it has the length of the input
\* and every byte at an offset outside 13..17 is the input's byte.
C3_DensityFrame ==
    (jpgCalls >= 1 /\ jpgOut.settled)
    => /\ Len(jpgOut.bytes) = Len(jpgIn)
       /\ \A off \in 0..(Len(jpgIn) - 1) :
             off \notin 13..17 => jpgOut.bytes[off + 1] = jpgIn[off + 1]

\* an input with bytes behind offset 17, on which the call changed a field
C3_Witness ==
    /\ jpgCalls >= 1
    /\ jpgOut.settled
    /\ HasSignature(jpgIn)
    /\ Len(jpgIn) > 18
    /\ jpgOut.bytes # jpgIn

\* C4: for every input whose first four bytes are not FF D8 FF E0 (shorter
\* inputs and the empty input included) the call returns the input unchanged
\* and does not fail.
C4_PassThrough ==
    (jpgCalls >= 1 /\ ~HasSignature(jpgIn))
    => /\ jpgOut.settled
       /\ jpgOut.bytes = jpgIn

\* the runs of processPdf that have resolved a renderScale
ScaledRuns == {r \in 1..Len(cRuns) : cRuns[r].scalePage >= 1}

\* C5: for every page and every request, renderScale is
\* (targetWidthMm/25.4*dpi)/widthPt if targetWidthMm is set and > 0, and dpi/72
\* in every other case (empty, zero, negative); one of the two modes is applied.
C5_RenderScale ==
    \A r \in ScaledRuns :
        LET run == cRuns[r]
            w == run.file.pages[run.scalePage].width
        IN  IF run.targetWidthMm.set /\ run.targetWidthMm.mm > 0
            THEN /\ run.mode = "target"
                 /\ run.renderScale = Frac(run.targetWidthMm.mm * 10 * run.dpi, 254 * w)
            ELSE /\ run.mode = "dpi"
                 /\ run.renderScale = Frac(run.dpi, 72)

\* a run on its second page, asked for a zero or negative width at a resolution
\* other than the default one
C5_Witness ==
    \E r \in ScaledRuns :
        /\ cRuns[r].scalePage = 2
        /\ cRuns[r].targetWidthMm.set
        /\ cRuns[r].targetWidthMm.mm <= 0
        /\ cRuns[r].dpi # 300
        /\ cRuns[r].mode = "dpi"

\* k = floor(x * f) for the fraction f
IsFloorOf(k, x, f) == k * f.den <= x * f.num /\ x * f.num < (k + 1) * f.den

\* the renderScale the request of run asks for on a page of width w
RequestedScale(run, w) ==
    IF run.targetWidthMm.set /\ run.targetWidthMm.mm > 0
    THEN Frac(run.targetWidthMm.mm * 10 * run.dpi, 254 * w)
    ELSE Frac(run.dpi, 72)

\* the recorded pixel size of every pushed page is the floor of its size in
\* points times the renderScale, and the published pages are those of a run
FloorPolicy ==
    /\ \A r \in 1..Len(cRuns) :
          \A k \in 1..Len(cRuns[r].newPages) :
              LET p == cRuns[r].newPages[k]
                  f == RequestedScale(cRuns[r], p.originalWidth)
              IN  /\ p.originalWidth = cRuns[r].file.pages[p.pageNumber].width
                  /\ p.originalHeight = cRuns[r].file.pages[p.pageNumber].height
                  /\ IsFloorOf(p.outputWidthPx, p.originalWidth, f)
                  /\ IsFloorOf(p.outputHeightPx, p.originalHeight, f)
    /\ Len(cPages) > 0
          => \E r \in 1..Len(cRuns) : cRuns[r].pc = "done" /\ cPages = cRuns[r].newPages

\* C6 as stated: outputWidthPx = floor(widthPt*renderScale), outputHeightPx =
\* floor(heightPt*renderScale), and when targetWidthMm is set the recorded
\* outputWidthPx never exceeds targetWidthMm/25.4*dpi.
C6_FloorPolicy ==
    /\ FloorPolicy
    /\ \A r \in 1..Len(cRuns) :
          \A k \in 1..Len(cRuns[r].newPages) :
              cRuns[r].targetWidthMm.set
                  => cRuns[r].newPages[k].outputWidthPx * 254
                        <= cRuns[r].targetWidthMm.mm * 10 * cRuns[r].dpi

\* what holds of the bound in exact arithmetic: when targetWidthMm is set and
\* > 0 the recorded outputWidthPx does not exceed targetWidthMm/25.4*dpi
FloorPolicyInTargetMode ==
    /\ FloorPolicy
    /\ \A r \in 1..Len(cRuns) :
          \A k \in 1..Len(cRuns[r].newPages) :
              (cRuns[r].targetWidthMm.set /\ cRuns[r].targetWidthMm.mm > 0)
                  => cRuns[r].newPages[k].outputWidthPx * 254
                        <= cRuns[r].targetWidthMm.mm * 10 * cRuns[r].dpi

\* the byte offsets the scan samples: 0, 16, 32, ... below data.length
SampledOffsets(data) == {j \in 0..(Len(data) - 1) : j % 16 = 0}

DeltaRG(data, j) == Abs(data[j + 1] - data[j + 2])
DeltaGB(data, j) == Abs(data[j + 2] - data[j + 3])
DeltaRB(data, j) == Abs(data[j + 1] - data[j + 3])

\* C7 as stated: in each definition of analyzePdf, isColor = true only if some
\* sampled pixel has |R-G| > 18 or |G-B| > 18.
C7_ColorOnlyIfSampled ==
    (clsDone /\ clsIsColor)
    => \E j \in SampledOffsets(clsData) :
          DeltaRG(clsData, j) > 18 \/ DeltaGB(clsData, j) > 18

\* what both definitions satisfy: isColor = true only if some sampled pixel
\* has |R-G| > 18 or |G-B| > 18 or, in the second definition, |R-B| > 18
ColorOnlyIfAnyDelta ==
    (clsDone /\ clsIsColor)
    => \E j \in SampledOffsets(clsData) :
          \/ DeltaRG(clsData, j) > 18
          \/ DeltaGB(clsData, j) > 18
          \/ (clsDef = 2 /\ DeltaRB(clsData, j) > 18)

\* C8: a bitmap whose sampled pixels all have R = G = B is isColor = false
\* (so is one whose sampled deltas are all at most 18), and a bitmap with a
\* sampled pixel of |R-G| > 18 or |G-B| > 18 is isColor = true.
C8_GrayAndColored ==
    clsDone
    => /\ (\A j \in SampledOffsets(clsData) :
              clsData[j + 1] = clsData[j + 2] /\ clsData[j + 2] = clsData[j + 3])
          => ~clsIsColor
       /\ (\A j \in SampledOffsets(clsData) :
              /\ DeltaRG(clsData, j) <= 18
              /\ DeltaGB(clsData, j) <= 18
              /\ DeltaRB(clsData, j) <= 18)
          => ~clsIsColor
       /\ (\E j \in SampledOffsets(clsData) :
              DeltaRG(clsData, j) > 18 \/ DeltaGB(clsData, j) > 18)
          => clsIsColor

\* not coloured: a sampled pixel with a delta of exactly 18, and a coloured
\* pixel among those the scan skips
C8_Witness ==
    /\ clsDone
    /\ ~clsIsColor
    /\ \E j \in SampledOffsets(clsData) : DeltaRG(clsData, j) = 18
    /\ \E k \in 0..(Len(clsData) - 1) :
          k % 4 = 0 /\ k % 16 # 0 /\ DeltaRG(clsData, k) > 18

\* the page of the analysed document a result was computed from
PageOfResult(r) == aRun.file.pages[r.pageNumber]

NativeBelowFloor(page) == page.width < 300 \/ page.height < 300

\* C9: isLowRes of every analysed page is true iff the page's native width is
\* < 300 or its native height is < 300, and hasLowRes is true iff some analysed
\* page is such a page.
C9_LowRes ==
    /\ \A k \in 1..Len(aRun.newResults) :
          aRun.newResults[k].isLowRes
              <=> NativeBelowFloor(PageOfResult(aRun.newResults[k]))
    /\ Len(aResults) > 0 => (aRun.pc = "done" /\ aResults = aRun.newResults)
    /\ ~Stats(aResults).isNull
          => (Stats(aResults).hasLowRes
                 <=> \E k \in 1..Len(aResults) : NativeBelowFloor(PageOfResult(aResults[k])))

\* published results with a page at the floor in one axis and below it in the
\* other, and a page above the floor
C9_Witness ==
    /\ Len(aResults) >= 2
    /\ Stats(aResults).hasLowRes
    /\ \E k, l \in 1..Len(aResults) :
          /\ aResults[k].isLowRes
          /\ PageOfResult(aResults[k]).width = 300
          /\ ~aResults[l].isLowRes

Ascending(q) == \A k \in 1..(Len(q) - 1) : q[k] < q[k + 1]
Elems(q) == {q[k] : k \in 1..Len(q)}

\* C10: the results have strictly increasing 1-based page numbers; the colour
\* and mono lists are ascending, disjoint and together hold exactly the page
\* numbers of the results; color + bw = total = number of results; and the
\* handoff tuple has colorCount + bwCount = totalPages.
C10_Partition ==
    LET st == Stats(aResults)
        nums == [k \in 1..Len(aResults) |-> aResults[k].pageNumber]
    IN  /\ Ascending(nums)
        /\ \A k \in 1..Len(nums) : nums[k] >= 1
        /\ ~st.isNull
              => /\ Ascending(st.colorPagesArr)
                 /\ Ascending(st.bwPagesArr)
                 /\ Elems(st.colorPagesArr) \cap Elems(st.bwPagesArr) = {}
                 /\ Elems(st.colorPagesArr) \cup Elems(st.bwPagesArr) = Elems(nums)
                 /\ st.color + st.bw = st.total
                 /\ st.total = Len(aResults)
        /\ ~sharedData.isNull
              => sharedData.colorCount + sharedData.bwCount = sharedData.totalPages

\* published results of a run that skipped a page, with a colour page and a
\* mono page among them
C10_Witness ==
    /\ aRun.pc = "done"
    /\ Len(aResults) >= 2
    /\ Len(aResults) < aRun.numPages
    /\ Stats(aResults).color >= 1
    /\ Stats(aResults).bw >= 1

(***************************************************************************)
(* Claims about the runs over a document (processPdf, analyzePdf)          *)
(***************************************************************************)
\* C11: once the document has opened, a page whose getPage or render rejects
\* is skipped and the run goes on to publish the pages that succeeded: no run
\* of analyzePdf or processPdf ends failed at a page.
C11_PageFailureTolerated ==
    /\ aRun.pc = "failed" => aRun.i = 0
    /\ \A r \in 1..Len(cRuns) : cRuns[r].pc = "failed" => cRuns[r].i = 0

\* a step in which the open of the analyzer's run, of the converter's run r, is
\* rejected
AnalyzerOpenFails == aRun.pc = "open" /\ aRun'.pc = "failed"
ConverterOpenFails(r) ==
    r <= Len(cRuns') /\ cRuns[r].pc = "open" /\ cRuns'[r].pc = "failed"

\* C12: when file.arrayBuffer() or getDocument rejects, the run had processed
\* no page and processes none, results / pages are left as they were, the
\* alert is shown and isProcessing is false after the step.
C12_OpenFailureClean ==
    [][ /\ AnalyzerOpenFails =>
            /\ aRun.i = 0 /\ aRun.newResults = <<>>
            /\ aRun'.i = 0 /\ aRun'.newResults = <<>>
            /\ aResults' = aResults
            /\ aRun'.alerted
            /\ ~aIsProcessing'
        /\ \A r \in 1..Len(cRuns) : ConverterOpenFails(r) =>
            /\ cRuns[r].i = 0 /\ cRuns[r].newPages = <<>> /\ cRuns[r].scalePage = 0
            /\ cRuns'[r].i = 0 /\ cRuns'[r].newPages = <<>>
            /\ cPages' = cPages
            /\ cRuns'[r].alerted
            /\ ~cIsProcessing'
      ]_vars

\* an analyzePdf run whose open was rejected, with nothing published
C12_Witness ==
    /\ aRun.pc = "failed" /\ aRun.i = 0 /\ aRun.alerted
    /\ ~aIsProcessing /\ aResults = <<>>

\* the same for processPdf
C12_WitnessConverter ==
    \E r \in 1..Len(cRuns) :
        /\ cRuns[r].pc = "failed" /\ cRuns[r].i = 0 /\ cRuns[r].alerted
        /\ ~cIsProcessing /\ cPages = <<>>

\* C13: when a run of analyzePdf or processPdf has finished (its loop ended
\* and it published its list), the progress value is 100, whichever pages
\* were skipped on the way.
C13_ProgressReaches100 ==
    /\ aRun.pc = "done" => aProgress = 100
    /\ \A r \in 1..Len(cRuns) : cRuns[r].pc = "done" => cProgress = 100

\* within a run the progress value never decreases
ProgressMonotonic ==
    [][ /\ (aRun.pc \in {"getPage", "render"} /\ aRun'.pc # "open")
            => aProgress' >= aProgress
        /\ (cRuns' = cRuns \/ Len(cRuns') = Len(cRuns)) => cProgress' >= cProgress
      ]_vars

(***************************************************************************)
(* Claims about the aggregation (stats) and the page sizes                 *)
(***************************************************************************)
\* C14: for an empty results list the aggregator yields a stats object (not
\* null) with total, color and bw 0 and isBleed and hasLowRes false.
C14_EmptyAggregation ==
    Len(aResults) = 0 =>
        /\ ~Stats(aResults).isNull
        /\ Stats(aResults).total = 0
        /\ Stats(aResults).color = 0
        /\ Stats(aResults).bw = 0
        /\ ~Stats(aResults).isBleed
        /\ ~Stats(aResults).hasLowRes

(***************************************************************************)
(* Claims about the quote                                                  *)
(***************************************************************************)
\* the prices of the selected add-ons, in tenths
SelectedAddonPrices ==
    SumPrices(SelectSeq(addons, LAMBDA a : a.selected))

\* the unit price of the composition rule, in tenths
UnitPrice ==
    manualColor * 50 + manualBw * 10
        + manualPages * ResolvePrice(paperOptions, selectedInnerPaperId, manualPages)
        + ResolvePrice(bindingOptions, selectedBindingId, quantity)
        + SelectedAddonPrices

\* C15: for every page count (0 included), colour count, mono count,
\* quantity, selected options and selected add-ons, totalPrice is
\* unitPrice * quantity rounded to the nearest integer, halves up.
C15_PriceComposition ==
    10 * totalPrice <= UnitPrice * quantity + 5
        /\ UnitPrice * quantity + 5 < 10 * (totalPrice + 1)

\* every tier of opt obeys minAmount >= 0
TiersNonNegative(opt) == \A k \in 1..Len(opt.tiers) : opt.tiers[k].minAmount >= 0

\* the resolved price is the base price of the selected option whenever the
\* compared amount is 0 or negative
BasePriceAtZero(options, id, amount, price) ==
    LET opt == FindOption(options, id)
    IN  (opt # 0 /\ amount <= 0 /\ TiersNonNegative(options[opt]))
            => price = options[opt].basePrice

\* C16: price resolution always yields a number, and for a compared quantity
\* of 0 or less (tiers obeying minAmount >= 0) no tier qualifies: the
\* resolved price is the selected option's basePrice.
C16_ResolverTotal ==
    /\ currentBindingPrice \in Int
    /\ currentPaperPrice \in Int
    /\ BasePriceAtZero(bindingOptions, selectedBindingId, quantity, currentBindingPrice)
    /\ BasePriceAtZero(paperOptions, selectedInnerPaperId, manualPages, currentPaperPrice)

\* page 1 of the document the published results were computed from
PageOne == aRun.file.pages[1]

\* the width of page lies strictly between BleedMin and BleedMax millimetres
\* (pt / 72 * 25.4, compared without rounding)
InBleedBand(page) ==
    page.width * 254 > BleedMin * 720 /\ page.width * 254 < BleedMax * 720

\* C17: isBleed holds exactly when the width of page 1 of the document is
\* strictly between 210 mm and 220 mm, whatever the other pages are, and
\* mainSize is the size of page 1.
C17_BleedFromPageOne ==
    ~Stats(aResults).isNull =>
        /\ Stats(aResults).isBleed <=> InBleedBand(PageOne)
        /\ Stats(aResults).mainSize = <<PtToMm(PageOne.width), PtToMm(PageOne.height)>>

\* C18: the widthMm and heightMm the analyzer reports for a page are
\* pt / 72 * 25.4 rounded to one decimal, the value the converter's
\* originalPdfInfo reports for the same page (both counted in tenths here).
C18_MmOneDecimal ==
    \A k \in 1..Len(aResults) :
        /\ 10 * aResults[k].widthMm = PtToMmTenths(PageOfResult(aResults[k]).width)
        /\ 10 * aResults[k].heightMm = PtToMmTenths(PageOfResult(aResults[k]).height)

(***************************************************************************)
(* Claims about the converter's output sizes                               *)
(***************************************************************************)
\* the previews that run r pushed for a page of 595 pt rasterized at 300 dpi
\* with no target width
A4At300(r) ==
    {k \in 1..Len(cRuns[r].newPages) :
        /\ cRuns[r].newPages[k].originalWidth = 595
        /\ cRuns[r].dpi = 300
        /\ ~cRuns[r].targetWidthMm.set}

\* C19 as stated: such a page is recorded with outputWidthPx = 2479 and
\* outputMmW = 210.0
C19_Scenario ==
    \A r \in 1..Len(cRuns) : \A k \in A4At300(r) :
        /\ cRuns[r].newPages[k].outputWidthPx = 2479
        /\ cRuns[r].newPages[k].outputMmW = 2100

\* C19, amended: a page of 595 pt rasterized at 300 dpi with no target width
\* is recorded with outputWidthPx = 2479 and outputMmW = 209.9
C19_ScenarioAmended ==
    \A r \in 1..Len(cRuns) : \A k \in A4At300(r) :
        /\ cRuns[r].newPages[k].outputWidthPx = 2479
        /\ cRuns[r].newPages[k].outputMmW = 2099

\* a finished run that published such a page
C19_Witness ==
    \E r \in 1..Len(cRuns) :
        /\ cRuns[r].pc = "done"
        /\ A4At300(r) # {}
        /\ cPages = cRuns[r].newPages

(***************************************************************************)
(* Claims about cancellation                                               *)
(***************************************************************************)
\* the handlers a user can trigger in the analyzer and in the converter (the
\* other actions are continuations of a run or of a file read)
UserRequest ==
    \/ AHandleFileChange
    \/ AnalyzeStart
    \/ Transfer
    \/ CHandleFileChange
    \/ SetDpi
    \/ SetTargetWidthMm
    \/ ProcessPdf

InFlight(pc) == pc \in {"open", "getPage", "render", "encode"}

\* C20: a run in flight can be cancelled: some request of the user reaches
\* the run (changes its position or its locals), so that the run can find it
\* between two pages and start no further page.
C20_Cancellable ==
    /\ InFlight(aRun.pc) => ENABLED (UserRequest /\ aRun' # aRun)
    /\ \A r \in 1..Len(cRuns) :
          InFlight(cRuns[r].pc) => ENABLED (UserRequest /\ cRuns'[r] # cRuns[r])

(***************************************************************************)
(* Claims about the stored price configuration                             *)
(***************************************************************************)
\* C21: a step that only resolves prices (no settings edit) leaves
\* bindingOptions and paperOptions as they were: every option keeps its tiers,
\* in the stored order, and its basePrice.
C21_ReadOnlyConfig ==
    [][ nEdits' = nEdits =>
            /\ bindingOptions' = bindingOptions
            /\ paperOptions' = paperOptions ]_vars

\* the tiers of opt are stored in an order that the descending sort changes
StoredUnsorted(opt) == SortDesc(opt.tiers) # opt.tiers

\* a resolution has sorted two qualifying tiers of the selected binding option
\* whose stored order is not the sorted one
C21_Witness ==
    LET opt == FindOption(bindingOptions, selectedBindingId)
    IN  /\ opt # 0
        /\ StoredUnsorted(bindingOptions[opt])
        /\ Len(FilterTiers(bindingOptions[opt].tiers, quantity)) >= 2
        /\ quantity > 1
        /\ currentBindingPrice = SortDesc(bindingOptions[opt].tiers)[1].price

(***************************************************************************)
(* Claims about repeated and unfinished injection                          *)
(***************************************************************************)
\* the inputs with the signature on which a call resolves: those drawn at the
\* start and the bytes handed to the last call
TaggableBlobs ==
    {x \in BlobSet \cup {jpgIn} : HasSignature(x) /\ injectDpiToJpeg(x, 96).settled}

\* C22 as stated: on inputs with the FF D8 FF E0 signature, injecting 96 and
\* then 150 does not in general give the bytes of a single injection of 150:
\* some such input gives different bytes.
C22_RepeatedInjectionDiffers ==
    \E x \in TaggableBlobs :
        injectDpiToJpeg(injectDpiToJpeg(x, 96).bytes, 150) # injectDpiToJpeg(x, 150)

\* C22, amended: a second call, made with any dpi on the bytes that a first
\* call resolved with for an input with the signature, resolves with the
\* bytes that a single call with that dpi gives on the original input.
C22_LastInjectionWins ==
    [][ (jpgCalls = 1 /\ jpgCalls' = 2 /\ HasSignature(jpgIn))
            => jpgOut' = injectDpiToJpeg(jpgIn, jpgDpi') ]_vars

\* a second call that was made with another density than the first on bytes
\* that the first call had tagged
C22_Witness ==
    /\ jpgCalls = 2
    /\ HasSignature(jpgIn) /\ Len(jpgIn) >= 18
    /\ jpgIn[14] = 1
    /\ GetUint16(jpgIn, XDensityOffset) # jpgDpi % 65536
    /\ jpgOut.settled
    /\ GetUint16(jpgOut.bytes, XDensityOffset) = jpgDpi % 65536

(***************************************************************************)
(* Claims about concurrent runs, stale results and the processing flag     *)
(***************************************************************************)
\* the processPdf calls that have started and not ended
RunsInFlight == {r \in 1..Len(cRuns) : InFlight(cRuns[r].pc)}

\* C23: at most one processPdf run is in flight at any time (the analyzer has
\* a single run by construction of its button), so the steps of two pages are
\* never in progress together.
C23_OneRunAtATime == Cardinality(RunsInFlight) <= 1

\* C24: whenever a run of processPdf is at the top of its loop (about to get
\* the next page) or past the loop, the canvas it allocated for the page
\* before has width and height 0.
C24_CanvasReleased ==
    \A r \in 1..Len(cRuns) :
        cRuns[r].pc \in {"getPage", "done"} => cRuns[r].canvas = NoCanvas

(***************************************************************************)
(* Claims about ties between tiers                                         *)
(***************************************************************************)
\* the positions of the tiers of opt that qualify for amount
Qualifying(opt, amount) ==
    {k \in 1..Len(opt.tiers) : opt.tiers[k].minAmount <= amount}

\* the first stored tier among those with the greatest qualifying minAmount
FirstAtGreatest(opt, amount) ==
    CHOOSE k \in Qualifying(opt, amount) :
        /\ \A j \in Qualifying(opt, amount) :
              opt.tiers[j].minAmount <= opt.tiers[k].minAmount
        /\ \A j \in Qualifying(opt, amount) :
              opt.tiers[j].minAmount = opt.tiers[k].minAmount => k <= j

TieBreakHolds(options, id, amount, price) ==
    LET opt == FindOption(options, id)
    IN  (opt # 0 /\ Qualifying(options[opt], amount) # {})
            => price = options[opt].tiers[FirstAtGreatest(options[opt], amount)].price

\* C25: when tiers qualify, the resolved price is that of the tier stored
\* first among those with the greatest qualifying minAmount, so equal
\* minAmounts are settled by the stored order and the price is a function of
\* the option and the quantity.
C25_TieBreak ==
    /\ TieBreakHolds(bindingOptions, selectedBindingId, quantity, currentBindingPrice)
    /\ TieBreakHolds(paperOptions, selectedInnerPaperId, manualPages, currentPaperPrice)

\* the selected binding option has two tiers of the same minAmount and of
\* different prices, that minAmount is the greatest that qualifies, and the
\* price resolved is the one stored first
C25_Witness ==
    LET opt == FindOption(bindingOptions, selectedBindingId)
    IN  /\ opt # 0
        /\ \E i, j \in 1..Len(bindingOptions[opt].tiers) :
              LET tiers == bindingOptions[opt].tiers
              IN  /\ i < j
                  /\ tiers[i].minAmount = tiers[j].minAmount
                  /\ tiers[i].price # tiers[j].price
                  /\ tiers[i].minAmount <= quantity
                  /\ FirstAtGreatest(bindingOptions[opt], quantity) = i
                  /\ currentBindingPrice = tiers[i].price

\* C26: once reader.onload has run for a call of injectDpiToJpeg, the promise
\* the call returned is settled, whatever the blob and the dpi were.
C26_InjectionSettles == jpgCalls >= 1 => jpgOut.settled

\* C27: whenever the published list is not empty, it is the list of a run
\* over the file that is selected now: results of analyzePdf, and pages of a
\* processPdf run.
C27_NoStaleResults ==
    /\ aResults # <<>> =>
          /\ aRun.pc = "done"
          /\ aRun.file = aFile
          /\ aResults = aRun.newResults
    /\ cPages # <<>> =>
          \E r \in 1..Len(cRuns) :
              /\ cRuns[r].pc = "done"
              /\ cRuns[r].file = cFile
              /\ cPages = cRuns[r].newPages

\* the loadPdf calls that have started and not ended
LoadsInFlight == {r \in 1..Len(fLoads) : fLoads[r].pc \in {"open", "page"}}

\* C28: the flag of each component is true exactly while one of its runs is
\* in flight: isProcessing for processPdf and analyzePdf, isLoading for
\* loadPdf; in particular it is not false while a run still executes pages.
C28_FlagWhileInFlight ==
    /\ cIsProcessing <=> RunsInFlight # {}
    /\ aIsProcessing <=> InFlight(aRun.pc)
    /\ isLoading <=> LoadsInFlight # {}

(***************************************************************************)
(* Claims about the flipbook                                               *)
(***************************************************************************)
\* C29: whenever pages is not empty, currentPage is an index of pages,
\* whichever way goToNext, goToPrev, file selections, loadPdf completions
\* and timer firings interleave.
C29_IndexInBounds ==
    fPages # <<>> => (0 <= currentPage /\ currentPage <= Len(fPages) - 1)

\* while a flip is pending, goToNext and goToPrev are without effect
NoFlipWhilePending ==
    flipDirection # "none" => (~ENABLED goToNext /\ ~ENABLED goToPrev)

\* C30: from every position from which goToNext moves, goToNext followed by
\* goToPrev, each with its timer completed on the same pages, brings
\* currentPage back to where it was.
C30_NextPrevRoundTrip ==
    ENABLED goToNext =>
        PrevPageFrom(NextPageFrom(currentPage, Len(fPages))) = currentPage

====
